---- MODULE Spec2Model ----
(***************************************************************************)
(* Model of the metric engines of music_entropy:                           *)
(*   lzc.py      _to_binary_string, lempel_ziv_complexity, normalized_lzc  *)
(*   entropy.py  shannon_entropy, markov_entropy, sliding_window_entropies *)
(*                                                                         *)
(* Floating-point values are represented in fixed point: an integer x      *)
(* stands for x / Scale bits.  math.log2 is a table of log2 rounded to     *)
(* 1/Scale; log2 of an even number is 1 + log2 of its half, so ratios that *)
(* are powers of two have exact logarithms, as they have in the code.      *)
(* Rhythm values are counted in halves, so that values between 0 and 1 are *)
(* among the inputs of the complexity engine.                              *)
(*                                                                         *)
(* Spec runs one call at a time; InterleavedSpec runs the calls of two     *)
(* threads on one list, step by step, in any interleaving.                 *)
(***************************************************************************)
EXTENDS Integers, Sequences, FiniteSets, TLC

VARIABLES fn, pc, sequence, order_k, window_size, step, h_star_eff, h_max,
          s, n, i, k, l, c, start, results, ret, err,
          heap, frames

\* one call: its function, its position, its arguments, its locals, its result
callvars == <<fn, pc, sequence, order_k, window_size, step, h_star_eff, h_max,
              s, n, i, k, l, c, start, results, ret, err>>

\* heap is a list object of a caller that several threads hand to the
\* engines, frames the call each thread is in
vars == <<callvars, heap, frames>>

----------------------------------------------------------------------------
(* Bounds of the explored inputs *)

\* longest rhythm sequence of 0s and 1s given to the complexity engine
MaxLzLen == 8
\* longest rhythm sequence of other values given to the complexity engine
MaxValueLen == 4
\* longest melody sequence given to the entropy engine
MaxLen == 5
\* parameters of markov_entropy and sliding_window_entropies
MaxOrder == 2
MaxWindow == 3
MaxStep == 3
\* entropies given to predictability_index: up to this many quarters of a bit
MaxQuarters == 6
\* longest list shared by concurrent calls
MaxSharedLen == 5

\* rhythm values are counted in halves: the integer x stands for the value
\* x / Unit of the code, so Unit is 1 and 1 is 0.5
Unit == 2
\* rhythm values: -0.5, 0, 0.5, 1 and 1.5
LzValues == {0 - 1, 0, 1, Unit, Unit + 1}
\* the rhythm values 0 and 1
BinaryValues == {0, Unit}
\* melody symbols
Symbols == {0, 1, 2}
Orders == (0 - 1) .. MaxOrder
\* concurrent callers, and the parameters they call with
Threads == {1, 2}
SharedOrders == {0, 1}
SharedWindows == {1, 2}
SharedSteps == {1, 2}
\* the elements of the shared list
BinaryDigits == {0, 1}
WindowSizes == (0 - 1) .. MaxWindow
Steps == (0 - 1) .. MaxStep

SeqsUpTo(S, len) == UNION {[1 .. m -> S] : m \in 0 .. len}

Repeat(pat, times) == [j \in 1 .. (Len(pat) * times) |-> pat[((j - 1) % Len(pat)) + 1]]

\* a list of integers as rhythm values
Rhythm(sq) == [j \in 1 .. Len(sq) |-> sq[j] * Unit]

\* the sequences of tests/test_lzc.py and tests/test_entropy.py
Alt40 == Repeat(<<0, 1>>, 20)
Zeros32 == Rhythm(Repeat(<<0>>, 32))
Periodic32 == Rhythm(Repeat(<<0, 1>>, 16))
Randomish32 == Rhythm(Repeat(<<0, 1, 1, 0, 1, 0, 0, 1>>, 4))
Ones20 == Repeat(<<1>>, 20)
Uniform20 == Repeat(<<0, 1, 2, 3>>, 5)

LzInputs == SeqsUpTo(LzValues, MaxValueLen) \cup SeqsUpTo(BinaryValues, MaxLzLen)
              \cup {Zeros32, Periodic32, Randomish32}
SymInputs == SeqsUpTo(Symbols, MaxLen) \cup {Alt40, Ones20, Uniform20}

Min(a, b) == IF a <= b THEN a ELSE b
Max(a, b) == IF a >= b THEN a ELSE b

----------------------------------------------------------------------------
(* Fixed-point reals *)

Scale == 10 ^ 6

\* log2 of 1, 3, 5, ..., 63, in units of 1/Scale
Log2Odd == <<0, 1584963, 2321928, 2807355, 3169925, 3459432, 3700440, 3906891,
             4087463, 4247928, 4392317, 4523562, 4643856, 4754888, 4857981, 4954196,
             5044394, 5129283, 5209453, 5285402, 5357552, 5426265, 5491853, 5554589,
             5614710, 5672425, 5727920, 5781360, 5832890, 5882643, 5930737, 5977280>>

RECURSIVE Log2(_)
Log2(x) == IF x % 2 = 0 THEN Scale + Log2(x \div 2) ELSE Log2Odd[(x + 1) \div 2]

\* the quotient a / b of two fixed-point numbers, b > 0, digit by digit
RECURSIVE Frac(_, _, _)
Frac(r, b, unit) ==
    IF unit = 0 THEN 0
    ELSE ((r * 10) \div b) * unit + Frac((r * 10) % b, b, unit \div 10)

FixDiv(a, b) == (a \div b) * Scale + Frac(a % b, b, Scale \div 10)

\* entropies in fixed point: quarters of a bit, negative ones included, and log2(3)
Entropies == {q * (Scale \div 4) : q \in (0 - MaxQuarters) .. MaxQuarters} \cup {Log2(3)}

----------------------------------------------------------------------------
(* lzc.py *)

\* int(v): the integer part of the rhythm value v, truncated toward zero
int(v) == IF v >= 0 THEN v \div Unit ELSE 0 - ((0 - v) \div Unit)

\* _to_binary_string: "1" if int(v) > 0 else "0", symbol by symbol
ToBinaryStringNonNegative(sq) == [j \in 1 .. Len(sq) |-> IF int(sq[j]) >= 0 THEN 1 ELSE 0]

ToBinaryStringNoInt(sq) == [j \in 1 .. Len(sq) |-> IF sq[j] > 0 THEN 1 ELSE 0]

to_binary_string(sq) == [j \in 1 .. Len(sq) |-> IF int(sq[j]) > 0 THEN 1 ELSE 0]

\* lempel_ziv_complexity up to the loop: the two early returns and
\* c = 1, i = 0, k = 1, l = 1.  brk tells that the function has returned.
LzStartNoSingle(str) ==
    IF Len(str) = 0
    THEN [i |-> 0, k |-> 1, l |-> 1, c |-> 0, brk |-> TRUE]
    ELSE [i |-> 0, k |-> 1, l |-> 1, c |-> 1, brk |-> FALSE]

LzStart(str) ==
    IF Len(str) = 0
    THEN [i |-> 0, k |-> 1, l |-> 1, c |-> 0, brk |-> TRUE]
    ELSE IF Len(str) = 1
    THEN [i |-> 0, k |-> 1, l |-> 1, c |-> 1, brk |-> TRUE]
    ELSE [i |-> 0, k |-> 1, l |-> 1, c |-> 1, brk |-> FALSE]

\* one iteration of the while loop; s[x] of the code is str[x + 1]
LzStepNoExtend(st, str) ==
    IF st.l + st.k > Len(str)
    THEN [st EXCEPT !.c = st.c + 1, !.brk = TRUE]
    ELSE IF str[st.i + st.k] = str[st.l + st.k]
    THEN st
    ELSE IF st.i + 1 = st.l
    THEN IF st.l + st.k >= Len(str)
         THEN [st EXCEPT !.i = st.i + 1, !.c = st.c + 1, !.l = st.l + st.k, !.brk = TRUE]
         ELSE [st EXCEPT !.i = 0, !.k = 1, !.c = st.c + 1, !.l = st.l + st.k]
    ELSE [st EXCEPT !.i = st.i + 1]

LzStepInverted(st, str) ==
    IF st.l + st.k > Len(str)
    THEN [st EXCEPT !.c = st.c + 1, !.brk = TRUE]
    ELSE IF str[st.i + st.k] /= str[st.l + st.k]
    THEN [st EXCEPT !.k = st.k + 1]
    ELSE IF st.i + 1 = st.l
    THEN IF st.l + st.k >= Len(str)
         THEN [st EXCEPT !.i = st.i + 1, !.c = st.c + 1, !.l = st.l + st.k, !.brk = TRUE]
         ELSE [st EXCEPT !.i = 0, !.k = 1, !.c = st.c + 1, !.l = st.l + st.k]
    ELSE [st EXCEPT !.i = st.i + 1]

LzStepEarlyTail(st, str) ==
    IF st.l + st.k >= Len(str)
    THEN [st EXCEPT !.c = st.c + 1, !.brk = TRUE]
    ELSE IF str[st.i + st.k] = str[st.l + st.k]
    THEN [st EXCEPT !.k = st.k + 1]
    ELSE IF st.i + 1 = st.l
    THEN IF st.l + st.k >= Len(str)
         THEN [st EXCEPT !.i = st.i + 1, !.c = st.c + 1, !.l = st.l + st.k, !.brk = TRUE]
         ELSE [st EXCEPT !.i = 0, !.k = 1, !.c = st.c + 1, !.l = st.l + st.k]
    ELSE [st EXCEPT !.i = st.i + 1]

LzStepNoPhraseBreak(st, str) ==
    IF st.l + st.k > Len(str)
    THEN [st EXCEPT !.c = st.c + 1, !.brk = TRUE]
    ELSE IF str[st.i + st.k] = str[st.l + st.k]
    THEN [st EXCEPT !.k = st.k + 1]
    ELSE IF st.i + 1 = st.l
    THEN IF FALSE
         THEN [st EXCEPT !.i = st.i + 1, !.c = st.c + 1, !.l = st.l + st.k, !.brk = TRUE]
         ELSE [st EXCEPT !.i = 0, !.k = 1, !.c = st.c + 1, !.l = st.l + st.k]
    ELSE [st EXCEPT !.i = st.i + 1]

LzStepTailNoCount(st, str) ==
    IF st.l + st.k > Len(str)
    THEN [st EXCEPT !.c = st.c, !.brk = TRUE]
    ELSE IF str[st.i + st.k] = str[st.l + st.k]
    THEN [st EXCEPT !.k = st.k + 1]
    ELSE IF st.i + 1 = st.l
    THEN IF st.l + st.k >= Len(str)
         THEN [st EXCEPT !.i = st.i + 1, !.c = st.c + 1, !.l = st.l + st.k, !.brk = TRUE]
         ELSE [st EXCEPT !.i = 0, !.k = 1, !.c = st.c + 1, !.l = st.l + st.k]
    ELSE [st EXCEPT !.i = st.i + 1]

LzStepLessEq(st, str) ==
    IF st.l + st.k > Len(str)
    THEN [st EXCEPT !.c = st.c + 1, !.brk = TRUE]
    ELSE IF str[st.i + st.k] <= str[st.l + st.k]
    THEN [st EXCEPT !.k = st.k + 1]
    ELSE IF st.i + 1 = st.l
    THEN IF st.l + st.k >= Len(str)
         THEN [st EXCEPT !.i = st.i + 1, !.c = st.c + 1, !.l = st.l + st.k, !.brk = TRUE]
         ELSE [st EXCEPT !.i = 0, !.k = 1, !.c = st.c + 1, !.l = st.l + st.k]
    ELSE [st EXCEPT !.i = st.i + 1]

LzStep(st, str) ==
    IF st.l + st.k > Len(str)
    THEN [st EXCEPT !.c = st.c + 1, !.brk = TRUE]
    ELSE IF str[st.i + st.k] = str[st.l + st.k]
    THEN [st EXCEPT !.k = st.k + 1]
    ELSE IF st.i + 1 = st.l
    THEN IF st.l + st.k >= Len(str)
         THEN [st EXCEPT !.i = st.i + 1, !.c = st.c + 1, !.l = st.l + st.k, !.brk = TRUE]
         ELSE [st EXCEPT !.i = 0, !.k = 1, !.c = st.c + 1, !.l = st.l + st.k]
    ELSE [st EXCEPT !.i = st.i + 1]

\* the loop run to its break
RECURSIVE LzRun(_, _)
LzRun(st, str) == IF st.brk THEN st.c ELSE LzRun(LzStep(st, str), str)

lempel_ziv_complexity(sq) == LzRun(LzStart(to_binary_string(sq)), to_binary_string(sq))

\* normalized_lzc: min(1.0, c * log2(n) / n), 0.0 for the empty sequence
NormalizedLzcUncapped(sq) ==
    IF Len(sq) = 0 THEN 0
    ELSE (lempel_ziv_complexity(sq) * Log2(Len(sq))) \div Len(sq)

normalized_lzc(sq) ==
    IF Len(sq) = 0 THEN 0
    ELSE Min(Scale, (lempel_ziv_complexity(sq) * Log2(Len(sq))) \div Len(sq))

----------------------------------------------------------------------------
(* entropy.py *)

\* Counter(sequence)[x]
Count(sq, x) == Cardinality({j \in 1 .. Len(sq) : sq[j] = x})

Range(sq) == {sq[j] : j \in 1 .. Len(sq)}

\* -p * log2(p) for p = count / total
EntropyTermOfTotal(count, total) == (count * Log2(total)) \div total

EntropyTerm(count, total) == (count * (Log2(total) - Log2(count))) \div total

RECURSIVE EntropySum(_, _)
EntropySum(sq, syms) ==
    IF syms = {} THEN 0
    ELSE LET x == CHOOSE y \in syms : TRUE
         IN  EntropyTerm(Count(sq, x), Len(sq)) + EntropySum(sq, syms \ {x})

\* shannon_entropy: 0.0 for the empty sequence, else the sum over Counter
shannon_entropy(sq) == IF Len(sq) = 0 THEN 0 ELSE EntropySum(sq, Range(sq))

\* context = tuple(sequence[idx : idx + order_k])
ContextShort(sq, idx, ok) == SubSeq(sq, idx + 1, idx + ok - 1)

Context(sq, idx, ok) == SubSeq(sq, idx + 1, idx + ok)

\* transitions[context]: the successors of context, in order of idx
NextSymbols(sq, ok, ctx) ==
    LET idxs == [j \in 1 .. (Len(sq) - ok) |-> j - 1]
        hits == SelectSeq(idxs, LAMBDA idx : Context(sq, idx, ok) = ctx)
    IN  [j \in 1 .. Len(hits) |-> sq[hits[j] + ok + 1]]

\* weight * shannon_entropy(next_symbols) with weight = len(next_symbols) / total
WeightedEntropyNoWeight(next_symbols, total) == shannon_entropy(next_symbols)

WeightedEntropy(next_symbols, total) ==
    (Len(next_symbols) * shannon_entropy(next_symbols)) \div total

RECURSIVE MarkovSum(_, _, _)
MarkovSum(sq, ok, ctxs) ==
    IF ctxs = {} THEN 0
    ELSE LET ctx == CHOOSE y \in ctxs : TRUE
         IN  WeightedEntropy(NextSymbols(sq, ok, ctx), Len(sq) - ok)
               + MarkovSum(sq, ok, ctxs \ {ctx})

\* markov_entropy
MarkovEntropyZeroForOrder0(sq, ok) ==
    IF ok <= 0 THEN 0
    ELSE IF Len(sq) <= ok THEN 0
    ELSE MarkovSum(sq, ok, {Context(sq, idx, ok) : idx \in 0 .. (Len(sq) - ok - 1)})

markov_entropy(sq, ok) ==
    IF ok <= 0 THEN shannon_entropy(sq)
    ELSE IF Len(sq) <= ok THEN 0
    ELSE MarkovSum(sq, ok, {Context(sq, idx, ok) : idx \in 0 .. (Len(sq) - ok - 1)})

\* predictability_index: 0.0 if h_max <= 0, else 1 - h_star_eff / h_max in [0, 1]
PredictabilityUnclamped(hs, hm) == IF hm <= 0 THEN 0 ELSE Scale - FixDiv(hs, hm)

predictability_index(hs, hm) ==
    IF hm <= 0 THEN 0 ELSE Min(Scale, Max(0, Scale - FixDiv(hs, hm)))

\* sliding_window_entropies: the argument check
InvalidArgumentStepOnly(w, st) == st <= 0

InvalidArgument(w, st) == w <= 0 \/ st <= 0

\* window = sequence[start : start + window_size]
WindowOneShort(sq, from, w) == SubSeq(sq, from + 1, Min(from + w - 1, Len(sq)))

Window(sq, from, w) == SubSeq(sq, from + 1, Min(from + w, Len(sq)))

\* the for loop of sliding_window_entropies run to its end, from start = from
RECURSIVE SlidingRun(_, _, _, _, _)
SlidingRun(sq, w, st, ok, from) ==
    IF from >= Len(sq) THEN <<>>
    ELSE LET window == Window(sq, from, w)
             rest == SlidingRun(sq, w, st, ok, from + st)
         IN  IF Len(window) = 0 THEN rest
             ELSE <<(<<shannon_entropy(window), markov_entropy(window, ok)>>)>> \o rest

\* sliding_window_entropies with valid arguments
sliding_window_entropies(sq, w, st, ok) == SlidingRun(sq, w, st, ok, 0)

----------------------------------------------------------------------------
(* The calls *)

Idle == pc = "idle"

Locals0 == /\ s = <<>> /\ n = 0 /\ i = 0 /\ k = 0 /\ l = 0 /\ c = 0
           /\ start = 0 /\ results = <<>> /\ ret = 0 /\ err = "none"

NoCall ==
    /\ fn = "none" /\ pc = "idle"
    /\ sequence = <<>> /\ order_k = 0 /\ window_size = 0 /\ step = 0
    /\ h_star_eff = 0 /\ h_max = 0
    /\ Locals0

\* the frame of a thread that is in no call
IdleFrame ==
    [fn |-> "none", pc |-> "idle", arg |-> <<>>, order_k |-> 0, window_size |-> 0,
     step |-> 0, s |-> <<>>, n |-> 0, i |-> 0, k |-> 0, l |-> 0, c |-> 0,
     start |-> 0, results |-> <<>>, ret |-> 0]

Init == NoCall /\ heap = <<>> /\ frames = [t \in Threads |-> IdleFrame]

\* lempel_ziv_complexity(binary_sequence), up to the while loop
CallLzc ==
    /\ Idle
    /\ \E sq \in LzInputs :
         LET str == to_binary_string(sq)
             st == LzStart(str)
         IN  /\ sequence' = sq
             /\ s' = str /\ n' = Len(str)
             /\ i' = st.i /\ k' = st.k /\ l' = st.l /\ c' = st.c
             /\ pc' = IF st.brk THEN "done" ELSE "lz_loop"
             /\ ret' = IF st.brk THEN st.c ELSE 0
    /\ fn' = "lzc" /\ order_k' = 0 /\ window_size' = 0 /\ step' = 0
    /\ h_star_eff' = 0 /\ h_max' = 0
    /\ start' = 0 /\ results' = <<>> /\ err' = "none"
    /\ UNCHANGED <<heap, frames>>

\* one iteration of the while loop of lempel_ziv_complexity
LzIterateNoExtend ==
    /\ pc = "lz_loop"
    /\ LET st == LzStepNoExtend([i |-> i, k |-> k, l |-> l, c |-> c, brk |-> FALSE], s)
       IN  /\ i' = st.i /\ k' = st.k /\ l' = st.l /\ c' = st.c
           /\ pc' = IF st.brk THEN "done" ELSE "lz_loop"
           /\ ret' = IF st.brk THEN st.c ELSE 0
    /\ UNCHANGED <<fn, sequence, order_k, window_size, step, h_star_eff, h_max,
                   s, n, start, results, err, heap, frames>>

LzIterate ==
    /\ pc = "lz_loop"
    /\ LET st == LzStep([i |-> i, k |-> k, l |-> l, c |-> c, brk |-> FALSE], s)
       IN  /\ i' = st.i /\ k' = st.k /\ l' = st.l /\ c' = st.c
           /\ pc' = IF st.brk THEN "done" ELSE "lz_loop"
           /\ ret' = IF st.brk THEN st.c ELSE 0
    /\ UNCHANGED <<fn, sequence, order_k, window_size, step, h_star_eff, h_max,
                   s, n, start, results, err, heap, frames>>

\* a call that returns at once: only the arguments and the result are kept
Returned(f, sq, ok, r) ==
    /\ fn' = f /\ pc' = "done" /\ sequence' = sq /\ order_k' = ok
    /\ window_size' = 0 /\ step' = 0 /\ h_star_eff' = 0 /\ h_max' = 0
    /\ s' = <<>> /\ n' = Len(sq) /\ i' = 0 /\ k' = 0 /\ l' = 0 /\ c' = 0
    /\ start' = 0 /\ results' = <<>> /\ ret' = r /\ err' = "none"
    /\ UNCHANGED <<heap, frames>>

\* normalized_lzc(binary_sequence)
CallNormalizedLzc ==
    /\ Idle
    /\ \E sq \in LzInputs : Returned("normalized_lzc", sq, 0, normalized_lzc(sq))

\* shannon_entropy(sequence)
CallShannon ==
    /\ Idle
    /\ \E sq \in SymInputs : Returned("shannon_entropy", sq, 0, shannon_entropy(sq))

\* markov_entropy(sequence, order_k)
CallMarkov ==
    /\ Idle
    /\ \E sq \in SymInputs, ok \in Orders :
         Returned("markov_entropy", sq, ok, markov_entropy(sq, ok))

\* predictability_index(h_star_eff, h_max)
CallPredictability ==
    /\ Idle
    /\ \E hs \in Entropies, hm \in Entropies :
         /\ h_star_eff' = hs /\ h_max' = hm /\ ret' = predictability_index(hs, hm)
    /\ fn' = "predictability_index" /\ pc' = "done"
    /\ sequence' = <<>> /\ order_k' = 0 /\ window_size' = 0 /\ step' = 0
    /\ s' = <<>> /\ n' = 0 /\ i' = 0 /\ k' = 0 /\ l' = 0 /\ c' = 0
    /\ start' = 0 /\ results' = <<>> /\ err' = "none"
    /\ UNCHANGED <<heap, frames>>

\* sliding_window_entropies(sequence, window_size, step, order_k), up to the for loop
CallSliding ==
    /\ Idle
    /\ \E sq \in SeqsUpTo(Symbols, MaxLen), w \in WindowSizes, st \in Steps, ok \in Orders :
         /\ sequence' = sq /\ window_size' = w /\ step' = st /\ order_k' = ok
         /\ n' = IF InvalidArgument(w, st) THEN 0 ELSE Len(sq)
         /\ err' = IF InvalidArgument(w, st) THEN "ValueError" ELSE "none"
         /\ pc' = IF InvalidArgument(w, st) THEN "done" ELSE "sw_loop"
    /\ fn' = "sliding_window_entropies" /\ h_star_eff' = 0 /\ h_max' = 0
    /\ s' = <<>> /\ i' = 0 /\ k' = 0 /\ l' = 0 /\ c' = 0
    /\ start' = 0 /\ results' = <<>> /\ ret' = 0
    /\ UNCHANGED <<heap, frames>>

\* SlidingIterate that advances by the window instead of the step
SlidingIterateByWindow ==
    /\ pc = "sw_loop"
    /\ start < n
    /\ LET window == Window(sequence, start, window_size)
       IN  results' = IF Len(window) = 0
                      THEN results
                      ELSE Append(results, <<shannon_entropy(window),
                                             markov_entropy(window, order_k)>>)
    /\ start' = start + window_size
    /\ UNCHANGED <<fn, pc, sequence, order_k, window_size, step, h_star_eff, h_max,
                   s, n, i, k, l, c, ret, err, heap, frames>>

\* one iteration of: for start in range(0, n, step)
SlidingIterate ==
    /\ pc = "sw_loop"
    /\ start < n
    /\ LET window == Window(sequence, start, window_size)
       IN  results' = IF Len(window) = 0
                      THEN results
                      ELSE Append(results, <<shannon_entropy(window),
                                             markov_entropy(window, order_k)>>)
    /\ start' = start + step
    /\ UNCHANGED <<fn, pc, sequence, order_k, window_size, step, h_star_eff, h_max,
                   s, n, i, k, l, c, ret, err, heap, frames>>

\* the range is exhausted: return results
SlidingReturn ==
    /\ pc = "sw_loop"
    /\ start >= n
    /\ pc' = "done"
    /\ UNCHANGED <<fn, sequence, order_k, window_size, step, h_star_eff, h_max,
                   s, n, i, k, l, c, start, results, ret, err, heap, frames>>

\* the caller takes the result; the locals of the call are discarded
Finish ==
    /\ pc = "done"
    /\ fn' = "none" /\ pc' = "idle"
    /\ sequence' = <<>> /\ order_k' = 0 /\ window_size' = 0 /\ step' = 0
    /\ h_star_eff' = 0 /\ h_max' = 0
    /\ s' = <<>> /\ n' = 0 /\ i' = 0 /\ k' = 0 /\ l' = 0 /\ c' = 0
    /\ start' = 0 /\ results' = <<>> /\ ret' = 0 /\ err' = "none"
    /\ UNCHANGED <<heap, frames>>

Next ==
    \/ Finish
    \/ CallLzc
    \/ LzIterate
    \/ CallNormalizedLzc
    \/ CallShannon
    \/ CallMarkov
    \/ CallPredictability
    \/ CallSliding
    \/ SlidingIterate
    \/ SlidingReturn

Spec == Init /\ [][Next]_vars

\* a started call keeps running: its loops are not suspended forever
FairSpec == Spec /\ WF_vars(LzIterate) /\ WF_vars(SlidingIterate) /\ WF_vars(SlidingReturn)

----------------------------------------------------------------------------
(* Concurrent calls on one list *)

\* The threads hand one list object, heap, to the engines.  A frame holds what
\* a call owns: its parameters and its locals.  arg is the content the list
\* had when the call was made; the call itself reads the list, heap, at the
\* steps where the code reads its parameter.

Engines == {"lzc", "normalized_lzc", "shannon_entropy", "markov_entropy",
            "sliding_window_entropies"}

\* thread t calls an engine with the list
ThreadCall(t) ==
    /\ frames[t].pc = "idle"
    /\ \E f \in Engines, ok \in SharedOrders, w \in SharedWindows, st \in SharedSteps :
         frames' = [frames EXCEPT ![t] =
            [IdleFrame EXCEPT
                !.fn = f, !.pc = "called", !.arg = heap,
                !.order_k = IF f \in {"markov_entropy", "sliding_window_entropies"}
                            THEN ok ELSE 0,
                !.window_size = IF f = "sliding_window_entropies" THEN w ELSE 0,
                !.step = IF f = "sliding_window_entropies" THEN st ELSE 0]]
    /\ UNCHANGED <<callvars, heap>>

\* shannon_entropy(sequence)
ThreadShannon(t) ==
    /\ frames[t].pc = "called" /\ frames[t].fn = "shannon_entropy"
    /\ frames' = [frames EXCEPT ![t].ret = shannon_entropy(heap), ![t].pc = "done"]
    /\ UNCHANGED <<callvars, heap>>

\* markov_entropy(sequence, order_k)
ThreadMarkov(t) ==
    /\ frames[t].pc = "called" /\ frames[t].fn = "markov_entropy"
    /\ frames' = [frames EXCEPT ![t].ret = markov_entropy(heap, frames[t].order_k),
                                ![t].pc = "done"]
    /\ UNCHANGED <<callvars, heap>>

\* normalized_lzc(binary_sequence): s = list(binary_sequence) and the rest
ThreadNormalizedLzc(t) ==
    /\ frames[t].pc = "called" /\ frames[t].fn = "normalized_lzc"
    /\ frames' = [frames EXCEPT ![t].ret = normalized_lzc(Rhythm(heap)),
                                ![t].n = Len(heap), ![t].pc = "done"]
    /\ UNCHANGED <<callvars, heap>>

\* lempel_ziv_complexity(binary_sequence), up to the while loop
ThreadLzc(t) ==
    /\ frames[t].pc = "called" /\ frames[t].fn = "lzc"
    /\ LET str == to_binary_string(Rhythm(heap))
           st == LzStart(str)
       IN  frames' = [frames EXCEPT
              ![t].s = str, ![t].n = Len(str),
              ![t].i = st.i, ![t].k = st.k, ![t].l = st.l, ![t].c = st.c,
              ![t].pc = IF st.brk THEN "done" ELSE "lz_loop",
              ![t].ret = IF st.brk THEN st.c ELSE 0]
    /\ UNCHANGED <<callvars, heap>>

\* one iteration of the while loop of lempel_ziv_complexity
ThreadLzIterate(t) ==
    /\ frames[t].pc = "lz_loop"
    /\ LET fr == frames[t]
           st == LzStep([i |-> fr.i, k |-> fr.k, l |-> fr.l, c |-> fr.c, brk |-> FALSE], fr.s)
       IN  frames' = [frames EXCEPT
              ![t].i = st.i, ![t].k = st.k, ![t].l = st.l, ![t].c = st.c,
              ![t].pc = IF st.brk THEN "done" ELSE "lz_loop",
              ![t].ret = IF st.brk THEN st.c ELSE 0]
    /\ UNCHANGED <<callvars, heap>>

\* sliding_window_entropies, up to the for loop: n = len(sequence)
ThreadSliding(t) ==
    /\ frames[t].pc = "called" /\ frames[t].fn = "sliding_window_entropies"
    /\ ~InvalidArgument(frames[t].window_size, frames[t].step)
    /\ frames' = [frames EXCEPT ![t].n = Len(heap), ![t].pc = "sw_loop"]
    /\ UNCHANGED <<callvars, heap>>

\* ThreadSlidingIterate that also drops the consumed head of the list
ThreadSlidingIterateConsuming(t) ==
    /\ frames[t].pc = "sw_loop"
    /\ frames[t].start < frames[t].n
    /\ LET fr == frames[t]
           window == Window(heap, fr.start, fr.window_size)
       IN  frames' = [frames EXCEPT
              ![t].results = IF Len(window) = 0
                             THEN fr.results
                             ELSE Append(fr.results, <<shannon_entropy(window),
                                                       markov_entropy(window, fr.order_k)>>),
              ![t].start = fr.start + fr.step]
    /\ heap' = SubSeq(heap, 2, Len(heap))
    /\ UNCHANGED callvars

\* one iteration of: for start in range(0, n, step)
ThreadSlidingIterate(t) ==
    /\ frames[t].pc = "sw_loop"
    /\ frames[t].start < frames[t].n
    /\ LET fr == frames[t]
           window == Window(heap, fr.start, fr.window_size)
       IN  frames' = [frames EXCEPT
              ![t].results = IF Len(window) = 0
                             THEN fr.results
                             ELSE Append(fr.results, <<shannon_entropy(window),
                                                       markov_entropy(window, fr.order_k)>>),
              ![t].start = fr.start + fr.step]
    /\ UNCHANGED <<callvars, heap>>

\* the range is exhausted: return results
ThreadSlidingReturn(t) ==
    /\ frames[t].pc = "sw_loop"
    /\ frames[t].start >= frames[t].n
    /\ frames' = [frames EXCEPT ![t].pc = "done"]
    /\ UNCHANGED <<callvars, heap>>

\* the caller takes the result; the frame of the call is discarded
ThreadFinish(t) ==
    /\ frames[t].pc = "done"
    /\ frames' = [frames EXCEPT ![t] = IdleFrame]
    /\ UNCHANGED <<callvars, heap>>

InterleavedInit ==
    /\ NoCall
    /\ heap \in SeqsUpTo(BinaryDigits, MaxSharedLen)
    /\ frames = [t \in Threads |-> IdleFrame]

InterleavedNext ==
    \E t \in Threads :
        \/ ThreadCall(t)
        \/ ThreadShannon(t)
        \/ ThreadMarkov(t)
        \/ ThreadNormalizedLzc(t)
        \/ ThreadLzc(t)
        \/ ThreadLzIterate(t)
        \/ ThreadSliding(t)
        \/ ThreadSlidingIterate(t)
        \/ ThreadSlidingReturn(t)
        \/ ThreadFinish(t)

\* the threads run their calls in any interleaving of these steps
InterleavedSpec == InterleavedInit /\ [][InterleavedNext]_vars

----------------------------------------------------------------------------
(* Properties *)

LzcReturned == fn = "lzc" /\ pc = "done"
MarkovReturned == fn = "markov_entropy" /\ pc = "done"
SlidingReturned == fn = "sliding_window_entropies" /\ pc = "done" /\ err = "none"

\* LZ76 parsing as the definition states it: the phrase starting at position
\* at (0-based) is the shortest str[at .. at+m-1] that occurs at no position
\* before at, or the remainder of str
OccursEarlier(str, at, m) ==
    \E p \in 0 .. (at - 1) : \A j \in 1 .. m : str[p + j] = str[at + j]

PhraseLen(str, at) ==
    LET fresh == {m \in 1 .. (Len(str) - at) : ~OccursEarlier(str, at, m)}
    IN  IF fresh = {} THEN Len(str) - at
        ELSE CHOOSE m \in fresh : \A m2 \in fresh : m <= m2

RECURSIVE LZ76Phrases(_, _)
LZ76Phrases(str, at) ==
    IF at >= Len(str) THEN 0 ELSE 1 + LZ76Phrases(str, at + PhraseLen(str, at))

LZ76Count(str) == IF Len(str) = 0 THEN 0 ELSE 1 + LZ76Phrases(str, 1)

\* C1: for every binary sequence of length n >= 1, lempel_ziv_complexity
\* returns the number of phrases of its LZ76 parsing
LzcIsLZ76PhraseCount == (LzcReturned /\ Len(sequence) >= 1) => ret = LZ76Count(s)

\* C2: lempel_ziv_complexity returns a non-negative integer, 0 for the empty
\* sequence and 1 for every one-element sequence whatever its element
LzcEdgeCases ==
    LzcReturned => /\ ret >= 0
                   /\ Len(sequence) = 0 => ret = 0
                   /\ Len(sequence) = 1 => ret = 1

LzcEdgeCasesWitness ==
    LzcReturned /\ Len(sequence) = 1 /\ sequence[1] = Unit + 1 /\ ret = 1

\* C3: for every sequence of length n >= 2 the parser loop reaches a break
\* and returns
LzcTerminates == (fn = "lzc" /\ pc = "lz_loop" /\ n >= 2) ~> (fn = "lzc" /\ pc = "done")

LzcTerminatesWitness == LzcReturned /\ n >= 2 /\ i > 0 /\ k > 1 /\ ret = c /\ c > 2

\* the fixed-point sum of an entropy is within this many units of 1/Scale of
\* the real value it stands for: every term is rounded, once per symbol
RoundingSlack(sq) == 3 * Cardinality(Range(sq))

\* C4 as stated: with len(seq) > k >= 0, markov_entropy(seq, k) is at most
\* shannon_entropy(seq)
MarkovAtMostShannon ==
    (MarkovReturned /\ order_k >= 0 /\ Len(sequence) > order_k)
        => ret <= shannon_entropy(sequence)

\* C4 amended: with len(seq) > k >= 0, markov_entropy(seq, k) is at most the
\* order-0 entropy of the successors seq[k:], up to rounding
MarkovAtMostSuccessorEntropy ==
    (MarkovReturned /\ order_k >= 0 /\ Len(sequence) > order_k)
        => ret <= shannon_entropy(SubSeq(sequence, order_k + 1, Len(sequence)))
                    + RoundingSlack(sequence)

MarkovAboveShannonWitness ==
    /\ MarkovReturned /\ order_k = 1 /\ sequence = <<0, 0, 1>>
    /\ ret = Scale /\ ret > shannon_entropy(sequence)

\* C5: sliding_window_entropies raises ValueError exactly when window_size <= 0
\* or step <= 0, before any window is computed and whatever the sequence;
\* with both positive it never raises
SlidingRaisesIffNonPositive ==
    fn = "sliding_window_entropies"
        => /\ err = "ValueError" <=> (window_size <= 0 \/ step <= 0)
           /\ err = "ValueError" => (pc = "done" /\ results = <<>> /\ start = 0)
           /\ err \in {"none", "ValueError"}

\* C5, the call with both parameters positive: its loop ends and it returns
SlidingReturns ==
    (fn = "sliding_window_entropies" /\ pc = "sw_loop")
        ~> (fn = "sliding_window_entropies" /\ pc = "done" /\ err = "none")

SlidingRaisesWitness ==
    /\ fn = "sliding_window_entropies" /\ err = "ValueError"
    /\ sequence = <<>> /\ window_size = 0 /\ step = 1

\* the window the claim gives to the j-th start, (j - 1) * step
ClaimedWindow(j) ==
    SubSeq(sequence, (j - 1) * step + 1, Min((j - 1) * step + window_size, Len(sequence)))

\* C6: with window_size > 0 and step > 0 the result holds, in increasing
\* order of start, one pair (shannon_entropy(w), markov_entropy(w, order_k))
\* for each start 0, step, 2*step, ... below len(seq), w the unpadded window
SlidingEmitsEveryWindow ==
    SlidingReturned
        => /\ Len(results) = (Len(sequence) + step - 1) \div step
           /\ \A j \in 1 .. Len(results) :
                results[j] = <<shannon_entropy(ClaimedWindow(j)),
                               markov_entropy(ClaimedWindow(j), order_k)>>

SlidingShortLastWindowWitness ==
    /\ SlidingReturned /\ sequence = <<0, 1, 1, 2>> /\ window_size = 3 /\ step = 2
    /\ order_k = 1 /\ Len(results) = 2
    /\ results[2] = <<shannon_entropy(<<1, 2>>), 0>>

\* the coercion as the claim states it: the symbol is '1' if v > 0 else '0',
\* and the sequence with each element v replaced by (1 if v > 0 else 0)
ClaimedSymbols(sq) == [j \in 1 .. Len(sq) |-> IF sq[j] > 0 THEN 1 ELSE 0]
ClaimedBinary(sq) == [j \in 1 .. Len(sq) |-> IF sq[j] > 0 THEN Unit ELSE 0]

\* the same with v >= 1 in the place of v > 0
AtLeastOneSymbols(sq) == [j \in 1 .. Len(sq) |-> IF sq[j] >= Unit THEN 1 ELSE 0]
AtLeastOneBinary(sq) == [j \in 1 .. Len(sq) |-> IF sq[j] >= Unit THEN Unit ELSE 0]

\* every element of sq is an integer
Integral(sq) == \A j \in 1 .. Len(sq) : sq[j] % Unit = 0

\* C7 as stated: lempel_ziv_complexity treats every value v > 0 as the symbol
\* '1' and every other value as '0', and returns what it returns for the
\* sequence with each element v replaced by (1 if v > 0 else 0)
LzcCoercesToBinary ==
    fn = "lzc" => /\ s = ClaimedSymbols(sequence)
                  /\ pc = "done" => ret = lempel_ziv_complexity(ClaimedBinary(sequence))

\* C7 amended: lempel_ziv_complexity treats every value v >= 1 as the symbol
\* '1' and every other value, those strictly between 0 and 1 included, as
\* '0', and returns what it returns for the sequence with each element v
\* replaced by (1 if v >= 1 else 0); on integers that is (1 if v > 0 else 0)
LzcCoercesByIntegerPart ==
    fn = "lzc" => /\ s = AtLeastOneSymbols(sequence)
                  /\ pc = "done" => ret = lempel_ziv_complexity(AtLeastOneBinary(sequence))
                  /\ Integral(sequence) => s = ClaimedSymbols(sequence)

\* [0.5, 0, 0.5, 0] is parsed as 0000, not as 1010
LzcCoercesWitness ==
    /\ LzcReturned /\ sequence = <<1, 0, 1, 0>> /\ s = <<0, 0, 0, 0>> /\ ret = 2
    /\ lempel_ziv_complexity(ClaimedBinary(sequence)) = 3

\* C8: normalized_lzc is 0.0 for the empty sequence, min(1, c * log2(n) / n)
\* for a sequence of length n >= 1, and so lies in [0, 1]
NormalizedLzcInUnitInterval ==
    (fn = "normalized_lzc" /\ pc = "done")
        => /\ 0 <= ret /\ ret <= Scale
           /\ Len(sequence) = 0 => ret = 0
           /\ Len(sequence) > 0 =>
                ret = Min(Scale, (lempel_ziv_complexity(sequence) * Log2(Len(sequence)))
                                    \div Len(sequence))

NormalizedLzcCappedWitness ==
    /\ fn = "normalized_lzc" /\ pc = "done" /\ Len(sequence) > 0 /\ ret = Scale
    /\ (lempel_ziv_complexity(sequence) * Log2(Len(sequence))) \div Len(sequence) > Scale

\* C9: for every sequence and every order k <= 0, markov_entropy(seq, k)
\* equals shannon_entropy(seq)
MarkovNonPositiveOrderIsShannon ==
    (MarkovReturned /\ order_k <= 0) => ret = shannon_entropy(sequence)

MarkovNonPositiveOrderWitness ==
    MarkovReturned /\ order_k < 0 /\ Len(sequence) >= 2 /\ ret > 0

\* every k-symbol context of sq is always followed by the same symbol
Deterministic(sq, ok) ==
    \A a, b \in 0 .. (Len(sq) - ok - 1) :
        SubSeq(sq, a + 1, a + ok) = SubSeq(sq, b + 1, b + ok) => sq[a + ok + 1] = sq[b + ok + 1]

\* C10: with len(seq) > k >= 1 and every k-symbol context always followed by
\* the same symbol, markov_entropy(seq, k) is exactly 0.0; for [0,1]*20 and
\* k = 1 it is 0.0 while shannon_entropy is 1.0
MarkovDeterministicIsZero ==
    /\ (MarkovReturned /\ order_k >= 1 /\ Len(sequence) > order_k
           /\ Deterministic(sequence, order_k)) => ret = 0
    /\ (MarkovReturned /\ sequence = Alt40 /\ order_k = 1)
           => (ret = 0 /\ shannon_entropy(Alt40) = Scale /\ shannon_entropy(Alt40) > ret)

MarkovAlternationWitness ==
    MarkovReturned /\ sequence = Alt40 /\ order_k = 1 /\ ret = 0

\* C11: for every non-empty sequence whose elements are all identical,
\* shannon_entropy returns exactly 0.0
ShannonConstantIsZero ==
    (fn = "shannon_entropy" /\ pc = "done" /\ Len(sequence) >= 1
        /\ \A j \in 1 .. Len(sequence) : sequence[j] = sequence[1]) => ret = 0

ShannonConstantWitness ==
    fn = "shannon_entropy" /\ pc = "done" /\ sequence = Ones20 /\ ret = 0

\* C12: predictability_index(hstar, hmax) lies in [0, 1]: 0 when hmax <= 0,
\* otherwise 1 - hstar / hmax clamped to [0, 1], which is 0 when
\* hstar >= hmax and 1 when hstar <= 0
PredictabilityInUnitInterval ==
    (fn = "predictability_index" /\ pc = "done")
        => /\ 0 <= ret /\ ret <= Scale
           /\ h_max <= 0 => ret = 0
           /\ (h_max > 0 /\ h_star_eff >= h_max) => ret = 0
           /\ (h_max > 0 /\ h_star_eff <= 0) => ret = Scale
           /\ (h_max > 0 /\ 0 < h_star_eff /\ h_star_eff < h_max)
                => ret = Scale - FixDiv(h_star_eff, h_max)

PredictabilityClampedWitness ==
    /\ fn = "predictability_index" /\ pc = "done"
    /\ h_max > 0 /\ h_star_eff < 0 /\ ret = Scale

\* C13: for every constant sequence of length n >= 1 lempel_ziv_complexity
\* returns at most 2, in particular for [0]*32
LzcConstantAtMostTwo ==
    (LzcReturned /\ Len(sequence) >= 1 /\ \A j \in 1 .. Len(sequence) : sequence[j] = sequence[1])
        => ret <= 2

LzcConstantWitness == LzcReturned /\ sequence = Zeros32 /\ ret = 2

\* C14: lempel_ziv_complexity([0,1,1,0,1,0,0,1]*4) is strictly greater than
\* lempel_ziv_complexity([0,1]*16)
LzcIrregularAbovePeriodic ==
    /\ (LzcReturned /\ sequence = Randomish32) => ret > lempel_ziv_complexity(Periodic32)
    /\ (LzcReturned /\ sequence = Periodic32) => ret < lempel_ziv_complexity(Randomish32)

LzcIrregularWitness == LzcReturned /\ sequence = Randomish32 /\ ret = 5

\* the call of frame fr goes as it goes when run alone on the content arg the
\* list had at the call: the string parsed, the results so far, the result
RunsAsAlone(fr) ==
    CASE fr.fn = "lzc" ->
            /\ fr.pc \in {"lz_loop", "done"} => fr.s = to_binary_string(Rhythm(fr.arg))
            /\ fr.pc = "done" => fr.ret = lempel_ziv_complexity(Rhythm(fr.arg))
      [] fr.fn = "normalized_lzc" ->
            fr.pc = "done" => fr.ret = normalized_lzc(Rhythm(fr.arg))
      [] fr.fn = "shannon_entropy" ->
            fr.pc = "done" => fr.ret = shannon_entropy(fr.arg)
      [] fr.fn = "markov_entropy" ->
            fr.pc = "done" => fr.ret = markov_entropy(fr.arg, fr.order_k)
      [] fr.fn = "sliding_window_entropies" ->
            LET alone == sliding_window_entropies(fr.arg, fr.window_size, fr.step, fr.order_k)
            IN  /\ fr.pc = "sw_loop"
                     => /\ Len(fr.results) <= Len(alone)
                        /\ fr.results = SubSeq(alone, 1, Len(fr.results))
                /\ fr.pc = "done" => fr.results = alone
      [] OTHER -> TRUE

\* C15: no engine function modifies its input sequence or keeps state across
\* calls: with calls on one list running in any interleaving, the list never
\* changes, it is what it was when each running call was made, and every
\* call goes and returns as it does when run alone on that list
EnginesArePure ==
    /\ [](\A t \in Threads : RunsAsAlone(frames[t]))
    /\ [](\A t \in Threads : frames[t].pc /= "idle" => frames[t].arg = heap)
    /\ [][heap' = heap]_vars

\* two calls on the same list are both in the middle of their loops
EnginesOverlapWitness ==
    /\ heap = <<0, 1, 1, 0>>
    /\ frames[1].fn = "sliding_window_entropies" /\ frames[1].pc = "sw_loop"
    /\ frames[1].window_size = 2 /\ frames[1].step = 1 /\ Len(frames[1].results) = 2
    /\ frames[2].fn = "lzc" /\ frames[2].pc = "lz_loop" /\ frames[2].k > 1

\* C16 as stated: for every input of length n >= 2, whenever
\* lempel_ziv_complexity has left its loop and returned, l >= n
LzcReturnsWithPrefixComplete == (LzcReturned /\ n >= 2) => l >= n

\* C16 amended: for every input of length n >= 2 the loop is left either at
\* the new-phrase break, with l >= n, or at the tail break, with l + k > n
LzcReturnsAtOneOfTwoBreaks == (LzcReturned /\ n >= 2) => (l >= n \/ l + k > n)

LzcTailBreakWitness == LzcReturned /\ n >= 2 /\ l < n /\ l + k > n /\ ret = c

\* C17: at the symbol comparison of the lempel_ziv_complexity loop
\* 0 <= i < l < n, k >= 1 and l + k <= n hold, so the compared positions
\* i + k - 1 and l + k - 1 lie in 0 .. n-1 and the first is below the second
LzcComparisonInRange ==
    pc = "lz_loop"
        => /\ 0 <= i /\ i < l /\ l < n /\ k >= 1 /\ n = Len(s)
           /\ l + k <= n
                => /\ 0 <= i + k - 1 /\ i + k - 1 < l + k - 1 /\ l + k - 1 <= n - 1
                   /\ (i + k) \in DOMAIN s /\ (l + k) \in DOMAIN s

LzcComparisonWitness == pc = "lz_loop" /\ l + k = n /\ i > 0 /\ k > 1

\* C18: throughout the lempel_ziv_complexity loop c <= l; on return
\* 2 <= c <= n for every sequence of length n >= 2, so the result is between
\* 0 and len(seq) for every input
LzcCountAtMostLength ==
    /\ pc = "lz_loop" => (1 <= c /\ c <= l)
    /\ (LzcReturned /\ n >= 2) => (2 <= ret /\ ret <= n)
    /\ LzcReturned => (0 <= ret /\ ret <= Len(sequence))

LzcCountWitness == LzcReturned /\ n >= 2 /\ ret = n /\ ret = c /\ c = l + 1

Binary(sq) == \A j \in 1 .. Len(sq) : sq[j] \in BinaryValues

\* complement: every 0 replaced by 1 and every 1 by 0
Complement(sq) == [j \in 1 .. Len(sq) |-> Unit - sq[j]]

\* C19: for every binary sequence lempel_ziv_complexity and normalized_lzc
\* return the same value for the sequence and for its complement
LzcComplementInvariant ==
    /\ (LzcReturned /\ Binary(sequence))
          => ret = lempel_ziv_complexity(Complement(sequence))
    /\ (fn = "normalized_lzc" /\ pc = "done" /\ Binary(sequence))
          => ret = normalized_lzc(Complement(sequence))

LzcComplementWitness ==
    /\ LzcReturned /\ sequence = Rhythm(<<0, 0, 1, 0, 1, 1>>)
    /\ ret = lempel_ziv_complexity(Rhythm(<<1, 1, 0, 1, 0, 0>>)) /\ ret >= 3

\* C20: with window_size > 0 and step > 0 sliding_window_entropies returns
\* exactly ceil(len(seq) / step) pairs whatever window_size and order_k are:
\* every start of the traversal is below len(seq), no window is skipped as
\* empty, and the empty sequence gives the empty list
SlidingCountIsCeil ==
    (fn = "sliding_window_entropies" /\ window_size > 0 /\ step > 0)
        => /\ start = Len(results) * step
           /\ (pc = "sw_loop" /\ start < n)
                => (start < Len(sequence)
                      /\ Len(SubSeq(sequence, start + 1,
                                    Min(start + window_size, Len(sequence)))) > 0)
           /\ pc = "done"
                => /\ Len(results) = (Len(sequence) + step - 1) \div step
                   /\ sequence = <<>> => results = <<>>

SlidingCountWitness ==
    /\ SlidingReturned /\ Len(sequence) = 5 /\ step = 2 /\ window_size = 1
    /\ Len(results) = 3

====
